---- MODULE Spec2Model ----
(***************************************************************************)
(* A model of src/main.py: the block store (FileManager), the node codec   *)
(* (BTreeNode) and the B-tree engine (BTree) of a persistent single-file   *)
(* index.  One action per public call on an index handle; each action is   *)
(* the whole call, with every read_node / write_node / sync_header it      *)
(* makes.  A call that raises leaves the handle and the file as they are   *)
(* at the raising statement, and the caller may go on using the handle.    *)
(*                                                                         *)
(* Python objects are modelled by value.  Every in-place mutation of a     *)
(* node object that the engine makes on a reachable path (lines 259,       *)
(* 307-315) is followed by write_node of that object, which stores the     *)
(* mutated object under its block id in the cache, so the cache entry and  *)
(* the local alias agree at every call boundary.                           *)
(***************************************************************************)
EXTENDS Integers, Sequences, FiniteSets, TLC

(***************************************************************************)
(* Program constants (src/main.py lines 22-27).                            *)
(***************************************************************************)
T == 10
MAX_KEYS == 2 * T - 1
MAX_CHILDREN == 2 * T
CACHE_SIZE == 3
MAGIC == "4348PRJ3"

(***************************************************************************)
(* Bounds of the model.                                                    *)
(*   MaxKey      keys handed to insert are 1..MaxKey, each new key being   *)
(*               the next one in ascending order                           *)
(*   MaxBlock    allocate_block is not called once next_block_id exceeds   *)
(*               MaxBlock (Spec)                                           *)
(*   MaxDups     number of insert calls that repeat an earlier key (the    *)
(*               repeated key is key 1)                                    *)
(*   MaxStoreBlock   highest block id the caller of the block store        *)
(*               allocates, reads and writes (SpecStore)                   *)
(*   MaxCodecId  block and parent ids of the nodes put through the codec   *)
(*               (SpecCodec)                                               *)
(*   MaxShellKey keys typed at the shell's prompts are 1..MaxShellKey      *)
(*               (SpecShell)                                               *)
(***************************************************************************)
MaxKey == 20
MaxBlock == 3
MaxDups == 1
MaxStoreBlock == 4
MaxCodecId == 2
MaxShellKey == 3

Keys == 1 .. MaxKey

\* The value handed to insert with key k: 10k the first time, 10k+1 when the
\* key is repeated.
FirstValue(k) == 10 * k
RepeatValue(k) == 10 * k + 1

None == "None"
\* A Python attribute that was never assigned on the object.
NoAttr == "NoAttr"
\* The path holds no file.
NoFile == [exists |-> FALSE, magic |-> "", root |-> 0, next |-> 0, blocks |-> <<>>]

\* A return value is a sequence: <<>> for None, <<v>> for the value v.
NoVal == <<>>

Min(a, b) == IF a <= b THEN a ELSE b

\* s[:n]
Take(s, n) == SubSeq(s, 1, Min(n, Len(s)))

\* s[n:]
Drop(s, n) == SubSeq(s, n + 1, Len(s))

\* list.insert(i, x) with a 0-based position i <= len
ListInsert(s, i, x) == Take(s, i) \o <<x>> \o Drop(s, i)

\* The fixed-width slot array that the pack loops write: s[i] if i < len(s)
\* else 0, for n slots.
Pad(s, n) == [i \in 1 .. n |-> IF i <= Len(s) THEN s[i] ELSE 0]

(***************************************************************************)
(* BTreeNode.  The constructor stores its children argument in the         *)
(* attribute num_children; it never creates an attribute named children.   *)
(***************************************************************************)
BTreeNode(block_id, parent_id, keys, values, children) ==
  [block_id |-> block_id, parent_id |-> parent_id, keys |-> keys,
   values |-> values, num_children |-> children, children |-> NoAttr]

is_leaf(node) == Len(node.num_children) = 0

\* A 512-byte node block: three header words, 19 key slots, 19 value slots,
\* 20 child slots (the 24 trailing padding bytes carry nothing).
to_bytes(node) ==
  [bid |-> node.block_id, pid |-> node.parent_id, nkeys |-> Len(node.keys),
   keys |-> Pad(node.keys, MAX_KEYS),
   vals |-> Pad(node.values, MAX_KEYS),
   ch |-> Pad(node.num_children, MAX_CHILDREN)]

from_bytes(data) ==
  BTreeNode(data.bid, data.pid, Take(data.keys, data.nkeys),
            Take(data.vals, data.nkeys), Take(data.ch, data.nkeys + 1))

\* A block of the file that lies below the end of the file and was never
\* written reads as zero bytes.
ZeroBlock ==
  [bid |-> 0, pid |-> 0, nkeys |-> 0, keys |-> Pad(<<>>, MAX_KEYS),
   vals |-> Pad(<<>>, MAX_KEYS), ch |-> Pad(<<>>, MAX_CHILDREN)]

(***************************************************************************)
(* FileManager.  A handle state st is the record                           *)
(*   file           the index file [exists, magic, root, next, blocks]     *)
(*                  (block 0 is the header, blocks[b] is node block b)     *)
(*   root_id, next_block_id   the handle's fields                          *)
(*   cache          the OrderedDict, oldest entry first: <<[bid, node]>>   *)
(*   lru            history: the cached block ids ordered by their last    *)
(*                  read_node / write_node call, least recent first        *)
(*   ids            history: the ids allocate_block has returned on this   *)
(*                  handle, in order                                       *)
(*   log            history: the file as it stood after each write         *)
(*                  (seek, write, flush) of the call in progress           *)
(*   calls          history: the insert_nonfull and split_child calls of   *)
(*                  the call in progress, each with the number of keys of  *)
(*                  the node it was handed                                 *)
(***************************************************************************)
CacheHas(cache, b) == \E i \in 1 .. Len(cache) : cache[i].bid = b

CacheIdx(cache, b) == CHOOSE i \in 1 .. Len(cache) : cache[i].bid = b

Entry(b, node) == [bid |-> b, node |-> node]

Remove(s, i) == SubSeq(s, 1, i - 1) \o SubSeq(s, i + 1, Len(s))

Without(s, b) == SelectSeq(s, LAMBDA x : x # b)

\* The history of accesses after block b was accessed and the cache became
\* newCache.
Touch(lru, b, newCache) ==
  SelectSeq(Append(Without(lru, b), b), LAMBDA x : CacheHas(newCache, x))

\* if len(self.cache) > CACHE_SIZE: self.cache.popitem(last=False)
Evict(cache) == IF Len(cache) > CACHE_SIZE THEN Tail(cache) ELSE cache

\* self.cache[key] = node: a key already present keeps its position in the
\* OrderedDict, a new key goes to the end.
CacheAssign(cache, b, node) ==
  IF CacheHas(cache, b)
    THEN [cache EXCEPT ![CacheIdx(cache, b)] = Entry(b, node)]
    ELSE Append(cache, Entry(b, node))

\* Writing one block at offset b * BLOCK_SIZE; the file grows as needed.
WriteBlock(blocks, b, data) ==
  [i \in 1 .. (IF b > Len(blocks) THEN b ELSE Len(blocks)) |->
     IF i = b THEN data ELSE IF i <= Len(blocks) THEN blocks[i] ELSE ZeroBlock]

\* The file after a write joins the history of the call's writes.
Written(st, f) == [st EXCEPT !.file = f, !.log = Append(st.log, f)]

sync_header(st) ==
  Written(st, [st.file EXCEPT !.magic = MAGIC, !.root = st.root_id,
                              !.next = st.next_block_id])

\* allocate_block persisting the header before it counts the new block.
allocate_block_SyncBeforeIncrement(st) ==
  [st |-> [sync_header(st) EXCEPT !.next_block_id = st.next_block_id + 1,
                                  !.ids = Append(st.ids, st.next_block_id)],
   bid |-> st.next_block_id]

allocate_block(st) ==
  [st |-> sync_header([st EXCEPT !.next_block_id = st.next_block_id + 1,
                                 !.ids = Append(st.ids, st.next_block_id)]),
   bid |-> st.next_block_id]

read_node(st, block_id) ==
  IF CacheHas(st.cache, block_id)
    THEN LET i == CacheIdx(st.cache, block_id)
             node == st.cache[i].node
             c == Append(Remove(st.cache, i), Entry(block_id, node))
         IN  [st |-> [st EXCEPT !.cache = c, !.lru = Touch(st.lru, block_id, c)],
              node |-> node, exc |-> None]
    ELSE IF block_id > Len(st.file.blocks)
      \* fewer than 512 bytes are read: struct.unpack_from raises
      THEN [st |-> st, node |-> None, exc |-> "struct.error"]
      ELSE LET node == from_bytes(st.file.blocks[block_id])
               c == Evict(Append(st.cache, Entry(block_id, node)))
           IN  [st |-> [st EXCEPT !.cache = c, !.lru = Touch(st.lru, block_id, c)],
                node |-> node, exc |-> None]

write_node(st, node) ==
  LET c == Evict(CacheAssign(st.cache, node.block_id, node))
      w == Written(st, [st.file EXCEPT
                          !.blocks = WriteBlock(st.file.blocks, node.block_id, to_bytes(node))])
  IN  [w EXCEPT !.cache = c, !.lru = Touch(st.lru, node.block_id, c)]

(***************************************************************************)
(* BTree.  Positions i are 0-based as in the source; sequences are 1-based *)
(* so list[i] is written seq[i + 1].                                       *)
(***************************************************************************)
\* i = 0; while i < len(keys) and key > keys[i]: i += 1
ScanUp(keys, key) ==
  Cardinality({j \in 1 .. Len(keys) : \A h \in 1 .. j : key > keys[h]})

\* i = len(keys) - 1; while i >= 0 and key < keys[i]: i -= 1   (then i + 1)
ScanDown(keys, key) ==
  Len(keys) - Cardinality({j \in 1 .. Len(keys) : \A h \in j .. Len(keys) : key < keys[h]})

RECURSIVE search(_, _, _)
search(st, block_id, key) ==
  IF block_id = 0 THEN [st |-> st, val |-> NoVal, exc |-> None]
  ELSE
    LET r == read_node(st, block_id)
        node == r.node
        i == ScanUp(node.keys, key)
    IN  IF r.exc # None THEN [st |-> r.st, val |-> NoVal, exc |-> r.exc]
        ELSE IF i < Len(node.keys) /\ key > node.keys[i + 1]
          THEN [st |-> r.st, val |-> <<node.values[i + 1]>>, exc |-> None]
        ELSE IF is_leaf(node) THEN [st |-> r.st, val |-> NoVal, exc |-> None]
        ELSE search(r.st, node.num_children[i + 1], key)

\* traverse(block_id, visit) with visit appending to pairs.  TraverseFrom is
\* the body of traverse from key position i on, for the node already read.
RECURSIVE traverse(_, _, _)
RECURSIVE TraverseFrom(_, _, _, _)
TraverseFrom(st, node, i, pairs) ==
  IF i < Len(node.keys)
    THEN IF ~is_leaf(node)
           THEN IF node.children = NoAttr
                  THEN [st |-> st, pairs |-> pairs, exc |-> "AttributeError"]
                  ELSE LET r == traverse(st, node.children[i + 1], pairs)
                       IN  IF r.exc # None THEN r
                           ELSE TraverseFrom(r.st, node, i + 1,
                                  Append(r.pairs, <<node.keys[i + 1], node.values[i + 1]>>))
           ELSE TraverseFrom(st, node, i + 1,
                  Append(pairs, <<node.keys[i + 1], node.values[i + 1]>>))
    ELSE IF ~is_leaf(node)
           THEN IF node.children = NoAttr
                  THEN [st |-> st, pairs |-> pairs, exc |-> "AttributeError"]
                  ELSE traverse(st, node.children[Len(node.keys) + 1], pairs)
           ELSE [st |-> st, pairs |-> pairs, exc |-> None]

traverse(st, block_id, pairs) ==
  IF block_id = 0 THEN [st |-> st, pairs |-> pairs, exc |-> None]
  ELSE LET r == read_node(st, block_id)
       IN  IF r.exc # None THEN [st |-> r.st, pairs |-> pairs, exc |-> r.exc]
           ELSE TraverseFrom(r.st, r.node, 0, pairs)

collect(st) == traverse(st, st.root_id, <<>>)

\* An in-place mutation of the node object that was read under cache key b:
\* the cache holds the same object, as long as the entry is still there.
SetCached(st, b, node) ==
  IF CacheHas(st.cache, b)
    THEN [st EXCEPT !.cache[CacheIdx(st.cache, b)] = Entry(b, node)]
    ELSE st

\* for c in z.children: if c != 0: child = read_node(c);
\*     child.parent_id = z_bid; write_node(child)
RECURSIVE Reparent(_, _, _, _)
Reparent(st, children, j, z_bid) ==
  IF j > Len(children) THEN [st |-> st, exc |-> None]
  ELSE IF children[j] = 0 THEN Reparent(st, children, j + 1, z_bid)
  ELSE LET r == read_node(st, children[j])
       IN  IF r.exc # None THEN [st |-> r.st, exc |-> r.exc]
           ELSE Reparent(write_node(r.st, [r.node EXCEPT !.parent_id = z_bid]),
                         children, j + 1, z_bid)

\* The call fn(node, ...) joins the history of the calls of this insert.
Enter(st, fn, node) ==
  [st EXCEPT !.calls = Append(st.calls, [fn |-> fn, nkeys |-> Len(node.keys)])]

\* Lines 293-301: promote the median into parent and write y, z, parent.
SplitFinish(st, parent, i, y, z, mid_key, mid_val) ==
  LET p == [parent EXCEPT !.keys = ListInsert(parent.keys, i, mid_key),
                          !.values = ListInsert(parent.values, i, mid_val),
                          !.children = ListInsert(parent.children, i + 1, z.block_id)]
  IN  [st |-> write_node(write_node(write_node(st, y), z), p),
       parent |-> p, exc |-> None]

\* After the re-parenting loop: rp is what the loop returned.
SplitReparented(rp, parent, i, y, z, mid_key, mid_val) ==
  IF rp.exc # None THEN [st |-> rp.st, parent |-> parent, exc |-> rp.exc]
  ELSE SplitFinish(rp.st, parent, i, y, z, mid_key, mid_val)

\* Lines 284-291, then 293-301: y1 and z hold the split keys and values.
SplitChildren(st, parent, i, y1, z, mid_key, mid_val) ==
  IF is_leaf(y1)
    THEN SplitFinish(SetCached(st, parent.children[i + 1], y1), parent, i, y1, z,
                     mid_key, mid_val)
  ELSE IF y1.children = NoAttr
    \* line 285: y.children[t:]
    THEN [st |-> SetCached(st, parent.children[i + 1], y1), parent |-> parent,
          exc |-> "AttributeError"]
  ELSE SplitReparented(
         Reparent(SetCached(st, parent.children[i + 1],
                            [y1 EXCEPT !.children = Take(y1.children, T)]),
                  Drop(y1.children, T), 1, z.block_id),
         parent, i, [y1 EXCEPT !.children = Take(y1.children, T)],
         [z EXCEPT !.children = Drop(y1.children, T)], mid_key, mid_val)

\* Lines 273-281: a is the allocation of z's block, y the child that was read.
SplitKeys(a, y, parent, i) ==
  SplitChildren(a.st, parent, i,
                [y EXCEPT !.keys = Take(y.keys, T - 1), !.values = Take(y.values, T - 1)],
                [BTreeNode(a.bid, parent.block_id, <<>>, <<>>, <<>>)
                   EXCEPT !.keys = Take(y.keys, T), !.values = Take(y.values, T)],
                y.keys[T], y.values[T])

\* split_child working on the child list the nodes have (num_children) and
\* writing the parent before the new right node.
split_child_ParentWrittenFirst(st, parent, i) ==
  LET r == read_node(Enter(st, "split_child", parent), parent.num_children[i + 1])
      y == r.node
      a == allocate_block(r.st)
      y1 == [y EXCEPT !.keys = Take(y.keys, T - 1), !.values = Take(y.values, T - 1)]
      z == [BTreeNode(a.bid, parent.block_id, <<>>, <<>>, <<>>)
              EXCEPT !.keys = Take(y.keys, T), !.values = Take(y.values, T)]
      p == [parent EXCEPT !.keys = ListInsert(parent.keys, i, y.keys[T]),
                          !.values = ListInsert(parent.values, i, y.values[T]),
                          !.num_children = ListInsert(parent.num_children, i + 1, a.bid)]
  IN  IF r.exc # None THEN [st |-> r.st, parent |-> parent, exc |-> r.exc]
      ELSE [st |-> write_node(write_node(write_node(a.st, y1), p), z),
            parent |-> p, exc |-> None]

split_child(st, parent, i) ==
  IF parent.children = NoAttr
    \* line 271: parent.children[i] on an object without that attribute
    THEN [st |-> Enter(st, "split_child", parent), parent |-> parent,
          exc |-> "AttributeError"]
    ELSE LET r == read_node(Enter(st, "split_child", parent), parent.children[i + 1])
         IN  IF r.exc # None THEN [st |-> r.st, parent |-> parent, exc |-> r.exc]
             ELSE SplitKeys(allocate_block(r.st), r.node, parent, i)

RECURSIVE insert_nonfull(_, _, _, _)
RECURSIVE DescendFrom(_, _, _, _, _)
RECURSIVE DescendAfterSplit(_, _, _, _)
RECURSIVE DescendInto(_, _, _)
\* Line 329 after the read of line 328: r2 is what read_node returned.
DescendInto(r2, key, value) ==
  IF r2.exc # None THEN [st |-> r2.st, exc |-> r2.exc]
  ELSE insert_nonfull(r2.st, r2.node, key, value)

\* Lines 326-328: s is what split_child(node, i) returned.
DescendAfterSplit(s, i, key, value) ==
  IF s.exc # None THEN [st |-> s.st, exc |-> s.exc]
  ELSE DescendInto(
         read_node(s.st, s.parent.children[(IF key > s.parent.keys[i + 1]
                                              THEN i + 1 ELSE i) + 1]),
         key, value)

\* Lines 324-329: r is what read_node(node.children[i]) returned.
DescendFrom(r, node, i, key, value) ==
  IF r.exc # None THEN [st |-> r.st, exc |-> r.exc]
  ELSE IF Len(r.node.keys) = MAX_KEYS
    THEN DescendAfterSplit(split_child(r.st, node, i), i, key, value)
    ELSE insert_nonfull(r.st, r.node, key, value)

insert_nonfull(st, node, key, value) ==
  IF is_leaf(node)
    THEN [st |-> write_node(Enter(st, "insert_nonfull", node),
                            [node EXCEPT
                               !.keys = ListInsert(node.keys, ScanDown(node.keys, key), key),
                               !.values = ListInsert(node.values, ScanDown(node.keys, key),
                                                     value)]),
          exc |-> None]
    ELSE IF node.children = NoAttr
      \* line 323: node.children[i]
      THEN [st |-> Enter(st, "insert_nonfull", node), exc |-> "AttributeError"]
    ELSE DescendFrom(read_node(Enter(st, "insert_nonfull", node),
                               node.children[ScanDown(node.keys, key) + 1]),
                     node, ScanDown(node.keys, key), key, value)

(***************************************************************************)
(* insert.  Line 250 reads `self.bfile.root-id = bid`, which Python        *)
(* rejects (an assignment to the expression root - id), and line 251 calls *)
(* a method syn_header that FileManager does not have.  The outcome of     *)
(* line 250 is taken both ways: `assigned` says whether root_id received   *)
(* bid.  Either way the call raises there and sync_header is not reached.  *)
(***************************************************************************)
\* What the root split hands back: s is what split_child returned.
RootSplitResult(s, new_bid) ==
  [st |-> s.st, parent |-> s.parent, exc |-> s.exc, new_bid |-> new_bid]

\* Lines 258-261: a is the allocation of the new root's block.
RootSplitAllocated(a, root) ==
  RootSplitResult(
    split_child(write_node(a.st, [root EXCEPT !.parent_id = a.bid]),
                BTreeNode(a.bid, 0, <<>>, <<>>, <<root.block_id>>), 0),
    a.bid)

\* Lines 257-261: the root is full; allocate the new root, re-parent and write
\* the old root, split it as child 0 of the new root.
RootSplit(st, root) == RootSplitAllocated(allocate_block(st), root)

\* Lines 247-252: a is the allocation of the first root's block.
InsertFirst(a, key, value, assigned) ==
  IF assigned
    THEN [st |-> [write_node(a.st, [BTreeNode(a.bid, 0, <<>>, <<>>, <<>>)
                                      EXCEPT !.keys = <<key>>, !.values = <<value>>])
                    EXCEPT !.root_id = a.bid],
          exc |-> "AttributeError"]
    ELSE [st |-> write_node(a.st, [BTreeNode(a.bid, 0, <<>>, <<>>, <<>>)
                                     EXCEPT !.keys = <<key>>, !.values = <<value>>]),
          exc |-> "SyntaxError"]

\* Lines 262-264: s is what the root split handed back.
InsertAfterSplit(s, key, value) ==
  IF s.exc # None THEN [st |-> s.st, exc |-> s.exc]
  ELSE insert_nonfull(sync_header([s.st EXCEPT !.root_id = s.new_bid]),
                      s.parent, key, value)

\* Lines 255-267: r is what read_node(root_id) returned.
InsertAtRoot(r, key, value) ==
  IF r.exc # None THEN [st |-> r.st, exc |-> r.exc]
  ELSE IF Len(r.node.keys) = MAX_KEYS
    THEN InsertAfterSplit(RootSplit(r.st, r.node), key, value)
    ELSE insert_nonfull(r.st, r.node, key, value)

\* Lines 265-267 for every root: the root goes to insert_nonfull as it is.
InsertAtRoot_NoFullRootTest(r, key, value) ==
  IF r.exc # None THEN [st |-> r.st, exc |-> r.exc]
  ELSE insert_nonfull(r.st, r.node, key, value)

\* insert without the test for a full root.
insert_NoFullRootTest(st, key, value, assigned) ==
  IF st.root_id = 0
    THEN InsertFirst(allocate_block(st), key, value, assigned)
    ELSE InsertAtRoot_NoFullRootTest(read_node(st, st.root_id), key, value)

insert(st, key, value, assigned) ==
  IF st.root_id = 0
    THEN InsertFirst(allocate_block(st), key, value, assigned)
    ELSE InsertAtRoot(read_node(st, st.root_id), key, value)

(***************************************************************************)
(* FileManager.__init__, open, close.                                      *)
(***************************************************************************)
NewFileManager(f) ==
  [file |-> f, root_id |-> 0, next_block_id |-> 1, cache |-> <<>>, lru |-> <<>>,
   ids |-> <<>>, log |-> <<>>, calls |-> <<>>]

\* open without the comparison of the signature: every header goes on to
\* the unpacking of its two fields.
open_NoMagicCheck(st, create) ==
  IF create
    THEN [st |-> Written(st, [exists |-> TRUE, magic |-> MAGIC, root |-> 0,
                              next |-> 1, blocks |-> <<>>]),
          exc |-> None]
    ELSE [st |-> st, exc |-> "TypeError"]

\* open on a newly constructed FileManager; the path exists when create is
\* false.  Mode w+b truncates the file before the header is written.  With
\* a matching signature the call goes on to struct.unpack('>Q', hdr, 8):
\* struct.unpack takes two arguments, so the call raises TypeError before
\* root_id is assigned.
open(st, create) ==
  IF create
    THEN [st |-> Written(st, [exists |-> TRUE, magic |-> MAGIC, root |-> 0,
                              next |-> 1, blocks |-> <<>>]),
          exc |-> None]
    ELSE IF st.file.magic # MAGIC
      THEN [st |-> st, exc |-> "ValueError"]
      ELSE [st |-> st, exc |-> "TypeError"]

close(st) == [st EXCEPT !.cache = <<>>, !.lru = <<>>]

\* A file that is no index file: its first 8 bytes are not the signature.
\* Its bytes 8..23 read as the numbers 2 and 3.
BadFile ==
  [exists |-> TRUE, magic |-> "NOTINDEX", root |-> 2, next |-> 3, blocks |-> <<>>]

(***************************************************************************)
(* State.                                                                  *)
(*   file, root_id, next_block_id, cache, lru, ids, log, calls             *)
(*           as in a handle state; log and calls are those of the last     *)
(*           call                                                          *)
(*   fd      TRUE while the handle holds an open file object               *)
(*   ret     the last call and what it returned or raised                  *)
(* History variables, read by the properties only:                         *)
(*   fresh   the handle is the one whose open(create=True) wrote the file  *)
(*   hi      the keys 1..hi were handed to insert since the file was       *)
(*           created                                                       *)
(*   dups    how many insert calls repeated an earlier key                 *)
(*   done    the pairs of the insert calls that returned (did not raise)   *)
(*           since the file was created                                    *)
(*   snap    what search and collect returned when close was called, kept  *)
(*           until the first call after the next open                      *)
(* The command shell (SpecShell):                                          *)
(*   sh      bfile: "None", or "tree" (the handle of the variables above,  *)
(*           which is the one btree works on), or "other" (a handle opened *)
(*           later, of which bfile_root is the root_id);                   *)
(*           btree: TRUE when the variable btree holds a BTree;            *)
(*           cmd, out: the last command and the message it printed;        *)
(*           pc: "loop", "crashed" (uncaught exception) or "quit"          *)
(* The codec on its own (SpecCodec):                                       *)
(*   codec   a node, its encoding and the decoding of that                 *)
(***************************************************************************)
VARIABLES file, fd, root_id, next_block_id, cache, lru, ids, log, calls, ret, fresh,
          hi, dups, done, snap, sh,
          codec

vars ==
  <<file, fd, root_id, next_block_id, cache, lru, ids, log, calls, ret, fresh, hi, dups,
    done, snap, sh, codec>>

indexVars ==
  <<file, fd, root_id, next_block_id, cache, lru, ids, log, calls, ret, fresh, hi, dups,
    done, snap, sh>>

\* The handle as a call finds it: the histories of a call start empty.
St ==
  [file |-> file, root_id |-> root_id, next_block_id |-> next_block_id,
   cache |-> cache, lru |-> lru, ids |-> ids, log |-> <<>>, calls |-> <<>>]

Commit(st) ==
  /\ file' = st.file
  /\ root_id' = st.root_id
  /\ next_block_id' = st.next_block_id
  /\ cache' = st.cache
  /\ lru' = st.lru
  /\ ids' = st.ids
  /\ log' = st.log
  /\ calls' = st.calls

\* The last call: its name, the exception it raised (None if it returned) and
\* the value it returned.
Ret(op, exc, val) == [op |-> op, exc |-> exc, val |-> val]

\* What search(root_id, k) returns for every key, and what collect returns
\* or raises, in handle state st.
SearchAll(st) ==
  [k \in Keys |-> LET r == search(st, st.root_id, k) IN [exc |-> r.exc, val |-> r.val]]

CollectVal(st) ==
  LET c == collect(st)
  IN  [exc |-> c.exc, val |-> IF c.exc # None THEN <<>> ELSE c.pairs]

Results(st) == [taken |-> TRUE, search |-> SearchAll(st), collect |-> CollectVal(st)]

NoSnap ==
  [taken |-> FALSE, search |-> [k \in Keys |-> [exc |-> None, val |-> NoVal]],
   collect |-> [exc |-> None, val |-> <<>>]]

NoCodec == [pc |-> "off"]

\* main before its loop: bfile = None, btree = None.
ShellStart(pc) ==
  [bfile |-> "None", bfile_root |-> 0, btree |-> FALSE, cmd |-> "", out |-> "", pc |-> pc]

IndexInit ==
  /\ fd = FALSE
  /\ root_id = 0
  /\ next_block_id = 1
  /\ cache = <<>>
  /\ lru = <<>>
  /\ ids = <<>>
  /\ log = <<>>
  /\ calls = <<>>
  /\ ret = Ret("init", None, NoVal)
  /\ fresh = FALSE
  /\ hi = 0
  /\ dups = 0
  /\ done = {}
  /\ snap = NoSnap

Init ==
  /\ file \in {NoFile, BadFile}
  /\ IndexInit
  /\ sh = ShellStart("off")
  /\ codec = NoCodec

\* create: bfile = FileManager(fname); bfile.open(create=True)
Create ==
  /\ ~fd
  /\ Commit(open(NewFileManager(file), TRUE).st)
  /\ fd' = TRUE
  /\ ret' = Ret("create", None, NoVal)
  /\ fresh' = TRUE
  /\ hi' = 0
  /\ dups' = 0
  /\ done' = {}
  /\ snap' = NoSnap
  /\ UNCHANGED <<codec, sh>>

\* open: bfile = FileManager(fname); bfile.open(create=False).  When open
\* raises, the caller drops the handle (bfile = None), and its open file
\* object with it.
OpenExisting ==
  /\ ~fd
  /\ file.exists
  /\ LET r == open(NewFileManager(file), FALSE)
     IN  /\ Commit(r.st)
         /\ ret' = Ret("open", r.exc, NoVal)
         /\ fd' = (r.exc = None)
  /\ UNCHANGED <<fresh, hi, dups, done, snap, codec, sh>>

Close ==
  /\ fd
  /\ snap' = Results(St)
  /\ Commit(close(St))
  /\ fd' = FALSE
  /\ ret' = Ret("close", None, NoVal)
  /\ fresh' = FALSE
  /\ UNCHANGED <<hi, dups, done, codec, sh>>

\* insert(k, v): k is the next new key or repeats an earlier key.
Insert(k, assigned, maxBlock) ==
  /\ fd
  /\ \/ k = hi + 1
     \/ k = 1 /\ k <= hi /\ dups < MaxDups
  /\ LET v == IF k = hi + 1 THEN FirstValue(k) ELSE RepeatValue(k)
         r == insert(St, k, v, assigned)
     IN  /\ r.st.next_block_id <= maxBlock + 1
         /\ Commit(r.st)
         /\ ret' = Ret("insert", r.exc, NoVal)
         /\ done' = IF r.exc = None THEN done \cup {<<k, v>>} ELSE done
  /\ hi' = IF k = hi + 1 THEN k ELSE hi
  /\ dups' = IF k = hi + 1 THEN dups ELSE dups + 1
  /\ snap' = NoSnap
  /\ UNCHANGED <<fd, fresh, codec, sh>>

Search(k) ==
  /\ fd
  /\ k \in {1, hi, hi + 1}
  /\ LET r == search(St, root_id, k)
     IN  /\ Commit(r.st)
         /\ ret' = Ret("search", r.exc, r.val)
  /\ snap' = NoSnap
  /\ UNCHANGED <<fd, fresh, hi, dups, done, codec, sh>>

Collect ==
  /\ fd
  /\ LET r == collect(St)
     IN  /\ Commit(r.st)
         /\ ret' = Ret("collect", r.exc, IF r.exc # None THEN <<>> ELSE r.pairs)
  /\ snap' = NoSnap
  /\ UNCHANGED <<fd, fresh, hi, dups, done, codec, sh>>

\* A caller's read_node(b) of a block of the file.
ReadNode(b) ==
  /\ fd
  /\ b <= Len(file.blocks)
  /\ LET r == read_node(St, b)
     IN  /\ Commit(r.st)
         /\ ret' = Ret("read_node", r.exc, <<b>>)
  /\ snap' = NoSnap
  /\ UNCHANGED <<fd, fresh, hi, dups, done, codec, sh>>

\* A caller's write_node(n) of a node object it got from read_node and that
\* the cache still holds.
WriteNode(b) ==
  /\ fd
  /\ CacheHas(cache, b)
  /\ Commit(write_node(St, cache[CacheIdx(cache, b)].node))
  /\ ret' = Ret("write_node", None, <<b>>)
  /\ snap' = NoSnap
  /\ UNCHANGED <<fd, fresh, hi, dups, done, codec, sh>>

\* A caller's bid = allocate_block(); write_node(BTreeNode(bid)).
WriteNew ==
  /\ fd
  /\ next_block_id <= MaxStoreBlock
  /\ LET a == allocate_block(St)
     IN  /\ Commit(write_node(a.st, BTreeNode(a.bid, 0, <<>>, <<>>, <<>>)))
         /\ ret' = Ret("write_node", None, <<a.bid>>)
  /\ snap' = NoSnap
  /\ UNCHANGED <<fd, fresh, hi, dups, done, codec, sh>>

\* The index used through create / open / close / insert / search / collect.
Next ==
  \/ Create
  \/ OpenExisting
  \/ Close
  \/ \E k \in Keys, assigned \in BOOLEAN : Insert(k, assigned, MaxBlock)
  \/ \E k \in Keys : Search(k)
  \/ Collect

Spec == Init /\ [][Next]_vars

\* The block store used on its own: a caller's allocate_block, read_node and
\* write_node calls on an open handle.
NextStore ==
  \/ Create
  \/ OpenExisting
  \/ Close
  \/ WriteNew
  \/ \E b \in 1 .. MaxStoreBlock : ReadNode(b)
  \/ \E b \in 1 .. MaxStoreBlock : WriteNode(b)

SpecStore == Init /\ [][NextStore]_vars

(***************************************************************************)
(* main: the command loop.  Each action is one command, from the prompt to *)
(* the next prompt.  An exception that main does not catch ends the run    *)
(* with a traceback.  load calls btree.insert for each line of its CSV     *)
(* file (here a file of one line) and extract calls btree.collect as print *)
(* does.  StartAgain is the program started again on the same path.        *)
(***************************************************************************)
handleVars == <<file, root_id, next_block_id, cache, lru, ids, log, calls>>

NoIndex == "No index file opened. Use 'create' or 'open' first."

Said(cmd, out) == [sh EXCEPT !.cmd = cmd, !.out = out]

Ended(cmd, exc) ==
  [sh EXCEPT !.cmd = cmd, !.out = IF exc = None THEN "" ELSE "Traceback",
             !.pc = IF exc = None THEN "loop" ELSE "crashed"]

\* Lines 354-363; overwrite is the answer to the prompt of line 356.
CmdCreate(overwrite) ==
  /\ sh.pc = "loop"
  /\ IF file.exists /\ ~overwrite
       THEN /\ sh' = Said("create", "File already exists. Use 'open' to open the file.")
            /\ UNCHANGED <<handleVars, fd, ret>>
       ELSE /\ Commit(open(NewFileManager(file), TRUE).st)
            /\ fd' = TRUE
            /\ ret' = Ret("create", None, NoVal)
            /\ sh' = [Said("create", "Created index file") EXCEPT
                        !.bfile = "tree", !.btree = TRUE]
  /\ UNCHANGED <<fresh, hi, dups, done, snap, codec>>

\* Lines 365-379.  Line 378 assigns the new BTree to a variable `tree` that
\* nothing reads: btree is left as it was.
CmdOpen ==
  /\ sh.pc = "loop"
  /\ IF ~file.exists
       THEN sh' = Said("open", "File does not exist.") /\ UNCHANGED ret
       ELSE LET r == open(NewFileManager(file), FALSE)
            IN  /\ ret' = Ret("open", r.exc, NoVal)
                /\ sh' = IF r.exc # None
                           THEN [Said("open", "Error") EXCEPT !.bfile = "None"]
                           ELSE [Said("open", "Opened index file") EXCEPT
                                   !.bfile = "other", !.bfile_root = r.st.root_id]
  /\ UNCHANGED <<handleVars, fd, fresh, hi, dups, done, snap, codec>>

\* Lines 382-388 and 395-404.
CmdInsert(cmd, k, assigned) ==
  /\ sh.pc = "loop"
  /\ IF ~sh.btree
       THEN sh' = Said(cmd, NoIndex) /\ UNCHANGED <<handleVars, ret>>
       ELSE LET r == insert(St, k, FirstValue(k), assigned)
            IN  /\ Commit(r.st)
                /\ ret' = Ret("insert", r.exc, NoVal)
                /\ sh' = Ended(cmd, r.exc)
  /\ UNCHANGED <<fd, fresh, hi, dups, done, snap, codec>>

\* Lines 382-384 and 390-393: btree.search(bfile.root_id, k).
CmdSearch(k) ==
  /\ sh.pc = "loop"
  /\ IF ~sh.btree
       THEN sh' = Said("search", NoIndex) /\ UNCHANGED <<handleVars, ret>>
       ELSE IF sh.bfile = "None"
         \* None has no attribute root_id
         THEN sh' = Ended("search", "AttributeError") /\ UNCHANGED <<handleVars, ret>>
         ELSE LET r == search(St, IF sh.bfile = "tree" THEN root_id ELSE sh.bfile_root, k)
              IN  /\ Commit(r.st)
                  /\ ret' = Ret("search", r.exc, r.val)
                  /\ sh' = IF r.exc = None /\ r.val = NoVal
                             THEN Said("search", "Not found.")
                             ELSE Ended("search", r.exc)
  /\ UNCHANGED <<fd, fresh, hi, dups, done, snap, codec>>

\* Lines 382-384, 406-408 and 410-417.
CmdPrint(cmd) ==
  /\ sh.pc = "loop"
  /\ IF ~sh.btree
       THEN sh' = Said(cmd, NoIndex) /\ UNCHANGED <<handleVars, ret>>
       ELSE LET r == collect(St)
            IN  /\ Commit(r.st)
                /\ ret' = Ret("collect", r.exc, IF r.exc # None THEN <<>> ELSE r.pairs)
                /\ sh' = Ended(cmd, r.exc)
  /\ UNCHANGED <<fd, fresh, hi, dups, done, snap, codec>>

\* Lines 352-353 and 422-423.  close touches the handle's own descriptor and
\* cache only; a handle other than the tree's leaves the tree's state alone.
CmdQuit ==
  /\ sh.pc = "loop"
  /\ sh' = [Said("quit", "") EXCEPT !.pc = "quit"]
  /\ IF sh.bfile = "tree"
       THEN Commit(close(St)) /\ fd' = FALSE
       ELSE UNCHANGED <<handleVars, fd>>
  /\ UNCHANGED <<ret, fresh, hi, dups, done, snap, codec>>

StartAgain ==
  /\ sh.pc \in {"crashed", "quit"}
  /\ sh' = ShellStart("loop")
  /\ Commit(NewFileManager(file))
  /\ fd' = FALSE
  /\ ret' = Ret("init", None, NoVal)
  /\ UNCHANGED <<fresh, hi, dups, done, snap, codec>>

ShellInit ==
  /\ file \in {NoFile, BadFile}
  /\ IndexInit
  /\ sh = ShellStart("loop")
  /\ codec = NoCodec

NextShell ==
  \/ \E overwrite \in BOOLEAN : CmdCreate(overwrite)
  \/ CmdOpen
  \/ \E cmd \in {"insert", "load"}, k \in 1 .. MaxShellKey, assigned \in BOOLEAN :
       CmdInsert(cmd, k, assigned)
  \/ \E k \in 1 .. MaxShellKey : CmdSearch(k)
  \/ \E cmd \in {"print", "extract"} : CmdPrint(cmd)
  \/ CmdQuit
  \/ StartAgain

SpecShell == ShellInit /\ [][NextShell]_vars

(***************************************************************************)
(* The codec on its own: a valid node is encoded and the block decoded.    *)
(* A valid node is a leaf with 0..MAX_KEYS keys and an empty child list,   *)
(* or an internal node with n keys and n + 1 non-zero child ids.           *)
(***************************************************************************)
ValidNode(b, p, n, internal) ==
  BTreeNode(b, p, [j \in 1 .. n |-> j], [j \in 1 .. n |-> FirstValue(j)],
            IF internal THEN [j \in 1 .. n + 1 |-> b + j] ELSE <<>>)

ValidNodes ==
  {ValidNode(b, p, n, internal) :
     b \in 1 .. MaxCodecId, p \in 0 .. MaxCodecId, n \in 0 .. MAX_KEYS,
     internal \in BOOLEAN}

CodecInit ==
  /\ file = NoFile
  /\ IndexInit
  /\ sh = ShellStart("off")
  /\ codec \in {[pc |-> "node", node |-> n] : n \in ValidNodes}

Encode ==
  /\ codec.pc = "node"
  /\ codec' = [pc |-> "bytes", node |-> codec.node, bytes |-> to_bytes(codec.node)]
  /\ UNCHANGED indexVars

Decode ==
  /\ codec.pc = "bytes"
  /\ codec' = [pc |-> "done", node |-> codec.node, bytes |-> codec.bytes,
               out |-> from_bytes(codec.bytes)]
  /\ UNCHANGED indexVars

NextCodec == Encode \/ Decode

SpecCodec == CodecInit /\ [][NextCodec]_vars

(***************************************************************************)
(* The tree as the handle sees it: the node of block b is the cached       *)
(* object if the cache holds one, else the decoding of the file's block;   *)
(* its children are the non-zero ids of its child list.                    *)
(***************************************************************************)
NodeAt(st, b) == read_node(st, b).node

ChildIds(node) == SelectSeq(node.num_children, LAMBDA c : c # 0)

RECURSIVE LeafDepths(_, _, _)
LeafDepths(st, b, d) ==
  IF b = 0 THEN {}
  ELSE LET kids == ChildIds(NodeAt(st, b))
       IN  IF kids = <<>> THEN {d}
           ELSE UNION {LeafDepths(st, kids[j], d + 1) : j \in 1 .. Len(kids)}

RECURSIVE TreeNodes(_, _)
TreeNodes(st, b) ==
  IF b = 0 THEN {}
  ELSE LET kids == ChildIds(NodeAt(st, b))
       IN  {b} \cup UNION {TreeNodes(st, kids[j]) : j \in 1 .. Len(kids)}

SetMax(S) == IF S = {} THEN 0 ELSE CHOOSE x \in S : \A y \in S : y <= x

Height(st) == SetMax(LeafDepths(st, st.root_id, 1))

Balanced(st) == Cardinality(LeafDepths(st, st.root_id, 1)) <= 1

RootFull(st) == st.root_id # 0 /\ Len(NodeAt(st, st.root_id).keys) = MAX_KEYS

StNext ==
  [file |-> file', root_id |-> root_id', next_block_id |-> next_block_id',
   cache |-> cache', lru |-> lru', ids |-> ids', log |-> <<>>, calls |-> <<>>]

\* The pairs of the keys 1..n with the values of their first insertion.
FirstPairs(n) == [k \in 1 .. n |-> <<k, FirstValue(k)>>]

(***************************************************************************)
(* C1.  On a freshly created index, after insert calls with pairwise       *)
(* distinct keys (none included), search(root_id, k) returns the value     *)
(* inserted with k for every inserted key and None for every other key.    *)
(***************************************************************************)
C1_SearchReturnsInserted ==
  (fd /\ fresh /\ dups = 0) =>
    \A k \in Keys :
      LET r == search(St, root_id, k)
      IN  /\ r.exc = None
          /\ r.val = IF k <= hi THEN <<FirstValue(k)>> ELSE NoVal

(***************************************************************************)
(* C2.  On a freshly created index, after insert calls with pairwise       *)
(* distinct keys, collect() returns exactly the inserted pairs, each once, *)
(* in strictly ascending key order.                                        *)
(***************************************************************************)
C2_CollectReturnsInserted ==
  (fd /\ fresh /\ dups = 0) =>
    LET c == collect(St)
    IN  c.exc = None /\ c.pairs = FirstPairs(hi)

(***************************************************************************)
(* C3.  After every insert all leaves reachable from the root are at the   *)
(* same depth; the height changes only when insert splits a full root (or  *)
(* puts the first node into an empty tree), and an insert that meets a     *)
(* full root raises the height by exactly one.                             *)
(***************************************************************************)
C3_BalancedHeightByRootSplit ==
  [][ret'.op = "insert" =>
        /\ Balanced(StNext)
        /\ Height(StNext) # Height(St) =>
             \/ root_id = 0 /\ Height(StNext) = 1
             \/ RootFull(St) /\ Height(StNext) = Height(St) + 1
        /\ RootFull(St) => Height(StNext) = Height(St) + 1]_vars

(***************************************************************************)
(* C4.  Every node of the tree holds between 0 and MAX_KEYS keys, and when *)
(* the root is full the split_child call that insert makes returns with    *)
(* the split node and the new right node holding exactly T - 1 keys each.  *)
(***************************************************************************)
C4_KeyCountsAndSplitHalves ==
  fd =>
    /\ \A b \in TreeNodes(St, root_id) : Len(NodeAt(St, b).keys) \in 0 .. MAX_KEYS
    /\ RootFull(St) =>
         LET r == read_node(St, root_id)
             s == RootSplit(r.st, r.node)
         IN  /\ s.exc = None
             /\ Len(NodeAt(s.st, root_id).keys) = T - 1
             /\ Len(NodeAt(s.st, s.new_bid + 1).keys) = T - 1

(***************************************************************************)
(* C5.  After close() and open(create=False) on the same path, search(k)   *)
(* for every key k and collect() return what they returned immediately     *)
(* before close().                                                         *)
(***************************************************************************)
C5_ReopenSameResults ==
  (ret.op = "open" /\ snap.taken) => (ret.exc = None /\ Results(St) = snap)

(***************************************************************************)
(* C6.  For every valid node n, from_bytes(to_bytes(n)) has the block_id,  *)
(* parent_id, keys, values and child list of n, and the decoding of a leaf *)
(* is a leaf.                                                              *)
(***************************************************************************)
C6_CodecRoundTrip ==
  codec.pc = "done" =>
    /\ codec.out.block_id = codec.node.block_id
    /\ codec.out.parent_id = codec.node.parent_id
    /\ codec.out.keys = codec.node.keys
    /\ codec.out.values = codec.node.values
    /\ codec.out.num_children = codec.node.num_children
    /\ is_leaf(codec.node) => is_leaf(codec.out)

(***************************************************************************)
(* C7.  The cache never holds more than CACHE_SIZE nodes, and when a       *)
(* read_node miss pushes it over CACHE_SIZE the entry removed is the one   *)
(* whose last access (read_node or write_node call) is the oldest.  Four   *)
(* distinct blocks read in sequence are an instance: the first-read block  *)
(* is the one removed.                                                     *)
(***************************************************************************)
C7_CacheBoundedEvictsLRU ==
  [][/\ Len(cache') <= CACHE_SIZE
     /\ (/\ ret'.op = "read_node"
         /\ ~CacheHas(cache, ret'.val[1])
         /\ Len(cache) = CACHE_SIZE)
        => ~CacheHas(cache', Head(lru))]_vars

(***************************************************************************)
(* C8.  open(create=False) on a file whose first 8 bytes are not the magic *)
(* signature raises the format error, leaves the file as it was, and the   *)
(* handle keeps the root_id and next_block_id of its constructor: the      *)
(* file's fields are not loaded.                                           *)
(***************************************************************************)
C8_BadMagicOpenFails ==
  [][(ret'.op = "open" /\ file.magic # MAGIC) =>
       /\ ret'.exc = "ValueError"
       /\ file' = file
       /\ root_id' = 0
       /\ next_block_id' = 1]_vars

C8_Witness ==
  /\ ret.op = "open"
  /\ ret.exc = "ValueError"
  /\ file.magic # MAGIC
  /\ file.root # root_id
  /\ file.next # next_block_id

(***************************************************************************)
(* C9.  An insert called while the root holds MAX_KEYS keys allocates a    *)
(* new root block, makes the old root its child 0, changes the header's    *)
(* root id to the new block, and leaves the new root with exactly 1 key    *)
(* and 2 children.                                                         *)
(***************************************************************************)
C9_FullRootIsSplit ==
  [][(ret'.op = "insert" /\ RootFull(St)) =>
       /\ root_id' = next_block_id
       /\ file'.root = root_id'
       /\ read_node(StNext, root_id').exc = None
       /\ LET new_root == NodeAt(StNext, root_id')
          IN  /\ Len(new_root.keys) = 1
              /\ Len(ChildIds(new_root)) = 2
              /\ ChildIds(new_root)[1] = root_id]_vars

(***************************************************************************)
(* C10.  No key occurs more than once in the tree, and collect() never     *)
(* yields the same key twice, also after insert calls that repeat a key.   *)
(***************************************************************************)
KeyPositions(st) ==
  {<<b, j>> : b \in TreeNodes(st, st.root_id), j \in 1 .. MAX_KEYS} \cap
  UNION {{<<b, j>> : j \in 1 .. Len(NodeAt(st, b).keys)} : b \in TreeNodes(st, st.root_id)}

NoRepeatedKey(pairs) ==
  \A i, j \in 1 .. Len(pairs) : i # j => pairs[i][1] # pairs[j][1]

C10_KeysUnique ==
  fd =>
    /\ \A p, q \in KeyPositions(St) :
         p # q => NodeAt(St, p[1]).keys[p[2]] # NodeAt(St, q[1]).keys[q[2]]
    /\ LET c == collect(St) IN c.exc = None => NoRepeatedKey(c.pairs)

(***************************************************************************)
(* C11.  The ids that allocate_block returns on a handle are at least 1    *)
(* and strictly increasing, and after every single write of a call the     *)
(* next_block_id in the file's header is greater than the id of every node *)
(* block the file holds, than every parent id and child id stored in those *)
(* blocks, and than the header's root id.                                  *)
(***************************************************************************)
IdsIncrease ==
  \A i \in 1 .. Len(ids) : ids[i] >= 1 /\ (i > 1 => ids[i] > ids[i - 1])

HeaderCovers(f) ==
  /\ Len(f.blocks) < f.next
  /\ f.root < f.next
  /\ \A b \in 1 .. Len(f.blocks) :
       /\ f.blocks[b].pid < f.next
       /\ \A j \in 1 .. MAX_CHILDREN : f.blocks[b].ch[j] < f.next

C11_BlockIdsFreshAndCovered ==
  fd =>
    /\ IdsIncrease
    /\ HeaderCovers(file)
    /\ \A i \in 1 .. Len(log) : HeaderCovers(log[i])

C11_Witness ==
  /\ fd
  /\ ret.op = "insert"
  /\ Len(ids) >= 2
  /\ Len(log) >= 2
  /\ Len(file.blocks) >= 1
  /\ file.blocks[1].pid = ids[Len(ids)]

(***************************************************************************)
(* C12.  When an insert returns, the root id and the next block id in the  *)
(* file's header equal the handle's root_id and next_block_id, and root_id *)
(* is the non-zero id of the tree's root, a node without a parent.         *)
(***************************************************************************)
C12_HeaderMatchesHandleAfterInsert ==
  (fd /\ ret.op = "insert" /\ ret.exc = None) =>
    /\ file.root = root_id
    /\ file.next = next_block_id
    /\ root_id # 0
    /\ NodeAt(St, root_id).parent_id = 0

(***************************************************************************)
(* C13.  split_child(parent, 0) as insert calls it on a full root c with   *)
(* keys k[0..18] returns, and then c holds k[0..8], the newly allocated    *)
(* right node holds k[10..18] with their values, parent holds the median   *)
(* pair (k[9], v[9]) at key position 0 and the right node's id at child    *)
(* position 1, and the pairs of c, the median and the right node together  *)
(* are the pairs c had.                                                    *)
(***************************************************************************)
C13_SplitChildHalves ==
  (fd /\ RootFull(St)) =>
    LET r == read_node(St, root_id)
        c == r.node
        s == RootSplit(r.st, c)
        left == NodeAt(s.st, root_id)
        right == NodeAt(s.st, s.new_bid + 1)
    IN  /\ s.exc = None
        /\ left.keys = Take(c.keys, T - 1)
        /\ left.values = Take(c.values, T - 1)
        /\ right.keys = Drop(c.keys, T)
        /\ right.values = Drop(c.values, T)
        /\ s.parent.keys = <<c.keys[T]>>
        /\ s.parent.values = <<c.values[T]>>
        /\ s.parent.children = <<root_id, s.new_bid + 1>>
        /\ left.keys \o s.parent.keys \o right.keys = c.keys

WellShaped(node) ==
  \/ node.num_children = <<>>
  \/ /\ Len(node.num_children) = Len(node.keys) + 1
     /\ Len(node.num_children) <= MAX_CHILDREN
     /\ \A j \in 1 .. Len(node.num_children) : node.num_children[j] # 0

C15_ChildListShape ==
  fd =>
    \A b \in TreeNodes(St, root_id) :
      /\ WellShaped(NodeAt(St, b))
      /\ b <= Len(file.blocks) => WellShaped(from_bytes(file.blocks[b]))

(***************************************************************************)
(* C16.  write_node(n) leaves n as the most recently used cache entry,     *)
(* also when n's block id was cached already: n is the last entry in the   *)
(* eviction order, and the eviction order of the cache is the order of the *)
(* entries' last accesses.                                                 *)
(***************************************************************************)
EvictionOrder(c) == [j \in 1 .. Len(c) |-> c[j].bid]

C16_WriteNodeMakesMostRecent ==
  [][ret'.op = "write_node" =>
       /\ cache'[Len(cache')].bid = ret'.val[1]
       /\ EvictionOrder(cache') = lru']_vars

(***************************************************************************)
(* C17.  When insert, search or collect has returned or raised, every node *)
(* in the cache has the block_id, parent_id, keys, values and child list   *)
(* of the node its block of the file decodes to: read_node gives the same  *)
(* node on a hit as on a miss.                                             *)
(***************************************************************************)
SameNode(a, b) ==
  /\ a.block_id = b.block_id
  /\ a.parent_id = b.parent_id
  /\ a.keys = b.keys
  /\ a.values = b.values
  /\ a.num_children = b.num_children

C17_CacheEqualsDisk ==
  (fd /\ ret.op \in {"insert", "search", "collect"}) =>
    \A j \in 1 .. Len(cache) :
      /\ cache[j].bid <= Len(file.blocks)
      /\ SameNode(cache[j].node, from_bytes(file.blocks[cache[j].bid]))

(***************************************************************************)
(* The tree a file holds: the pairs of the nodes reachable from the        *)
(* header's root id through the non-zero child ids of the decoded blocks.  *)
(***************************************************************************)
RECURSIVE DiskSubtree(_, _, _)
DiskSubtree(f, b, depth) ==
  IF b = 0 \/ b > Len(f.blocks) \/ depth = 0 THEN {}
  ELSE LET n == from_bytes(f.blocks[b])
       IN  {<<n.keys[j], n.values[j]>> : j \in 1 .. Len(n.keys)} \cup
           UNION {DiskSubtree(f, n.num_children[j], depth - 1) :
                    j \in 1 .. Len(n.num_children)}

DiskPairs(f) == DiskSubtree(f, f.root, Len(f.blocks))

(***************************************************************************)
(* C18.  An insert that meets a full root performs several writes, and at  *)
(* a boundary between two consecutive ones the tree reachable from the     *)
(* on-disk root lacks a pair stored by an insert completed before it.      *)
(***************************************************************************)
C18_RootSplitTornBetweenWrites ==
  [][(ret'.op = "insert" /\ RootFull(St)) =>
       /\ Len(log') >= 2
       /\ \E i \in 1 .. Len(log') - 1 : ~(done \subseteq DiskPairs(log'[i]))]_vars

\* No insert of any kind has such a boundary.
NoInsertTornBetweenWrites ==
  [][ret'.op = "insert" =>
       \A i \in 1 .. Len(log') - 1 : done \subseteq DiskPairs(log'[i])]_vars

(***************************************************************************)
(* C19.  A file f holds a parent ahead of its sibling when one of its node *)
(* blocks has a key and a non-zero child id whose block has not been       *)
(* written.                                                                *)
(* As claimed: an insert that splits the full root passes, between two of  *)
(* its writes, through a file that holds the parent ahead of the sibling.  *)
(* As amended: after no write of any call does the file hold a parent      *)
(* ahead of its sibling; the block of a new sibling is written before the  *)
(* block of the parent that refers to it.                                  *)
(***************************************************************************)
Unwritten(f, c) == c > Len(f.blocks) \/ f.blocks[c] = ZeroBlock

ParentAheadOfSibling(f) ==
  \E b \in 1 .. Len(f.blocks) :
    /\ f.blocks[b].nkeys >= 1
    /\ \E j \in 1 .. MAX_CHILDREN :
         f.blocks[b].ch[j] # 0 /\ Unwritten(f, f.blocks[b].ch[j])

IndexFile(f) == f.exists /\ f.magic = MAGIC

C20_OpenMakesCurrentIndex ==
  [][/\ (sh'.cmd = "open" /\ IndexFile(file)) =>
          /\ sh'.out = "Opened index file"
          /\ sh'.btree
          /\ sh'.bfile = "tree"
     /\ (/\ sh.cmd = "open"
         /\ IndexFile(file)
         /\ sh'.cmd \in {"insert", "search", "load", "print", "extract"})
        => sh'.out # NoIndex]_vars

====
